---- MODULE Spec2Model ----
(***************************************************************************)
(* Model of scripts/apply_license.py: the license-header checker/applier. *)
(*                                                                         *)
(* Text is a sequence of one-character strings.  A file on disk is the    *)
(* sequence of characters it stores; read_text and write_text are the     *)
(* text-mode conversions of Python (universal newlines on reading,        *)
(* "\n" -> os.linesep on writing), modelled by what they do.              *)
(* Paths are sequences of characters too, so that startswith on the       *)
(* relative path and the "*.c" / "*.h" globs are computed as the code     *)
(* computes them.                                                         *)
(***************************************************************************)
EXTENDS Integers, Sequences, FiniteSets, TLC

VARIABLES
    check_mode,            \* "--check" in sys.argv                   (line 96)
    dirs,                  \* the configured directories that exist as directories
    disk,                  \* existing target files -> stored characters
    readable,              \* file -> whether read_text succeeds on it
    pc,                    \* "dir" (top of the directory loop), "scan", "done"
    di,                    \* index into DIRS_TO_SCAN of the current directory
    exts_left,             \* extensions the inner loop has not taken yet
    todo,                  \* files of the current rglob not yet visited
    files_in_dir_processed,
    missing_files,
    total_processed,
    total_skipped,
    exit_status,           \* -1 while running, else the argument of sys.exit
    \* what the run did, for stating the properties
    pre,                   \* disk at the start of the current run
    visited,               \* files the loop body ran on
    readSet,               \* files read_text was called on
    written,               \* files write_text succeeded on
    writeFailed,           \* files write_text raised IOError on
    reported,              \* files printed as [MISSING]
    applying,              \* files printed as [APPLYING]
    errlog,                \* files with an [ERROR] line on stderr
    warned,                \* directories with a [WARN] line
    run,                   \* which invocation of the tool this is
    prev                   \* summary of the previous invocation

vars == << check_mode, dirs, disk, readable, pc, di, exts_left, todo,
           files_in_dir_processed, missing_files, total_processed,
           total_skipped, exit_status, pre, visited, readSet, written,
           writeFailed, reported, applying, errlog, warned, run, prev >>

----------------------------------------------------------------------------
(* Bounds of the model *)

\* how many times in succession the tool is invoked (SpecRuns)
MaxRuns == 2

\* at most this many target files exist in the tree
MaxFiles == 2

----------------------------------------------------------------------------
(* Characters and strings *)

LF == "\n"
CR == "\r"

\* str.startswith
startswith(s, p) ==
    /\ Len(p) <= Len(s)
    /\ SubSeq(s, 1, Len(p)) = p

\* what the glob "*<ext>" tests on a path: its name ends with ext
endswith(s, x) ==
    /\ Len(x) <= Len(s)
    /\ SubSeq(s, Len(s) - Len(x) + 1, Len(s)) = x

----------------------------------------------------------------------------
(* Configuration, lines 8-50 *)

DIRS_TO_SCAN ==
    << <<"s","r","c">>,
       <<"i","n","c","l","u","d","e">>,
       <<"t","e","s","t","s">> >>

TARGET_EXTS == { <<".","c">>, <<".","h">> }

THIRD_PARTY_PATHS ==
    { <<"i","n","c","l","u","d","e","/","u","t","i","l","s","/",
        "x","x","h","a","s","h",".","h">>,
      <<"s","r","c","/","u","t","i","l","s","/",
        "x","x","h","a","s","h",".","c">> }

\* The header comment.  Its text is abstracted to one line: the character "H"
\* stands for the comment's characters, and it ends, as the template does,
\* with a newline.
BOILERPLATE == << "H", LF >>

BOILERPLATE_WITH_SPACING == BOILERPLATE \o << LF, LF >>


----------------------------------------------------------------------------
(* The file system the tool runs on *)

\* Target files that may exist under the project root.
F_a   == <<"s","r","c","/","a",".","c">>
F_xx  == <<"s","r","c","/","u","t","i","l","s","/",
           "x","x","h","a","s","h",".","c">>
F_xxh == <<"i","n","c","l","u","d","e","/","u","t","i","l","s","/",
           "x","x","h","a","s","h",".","h",".","c">>
F_t   == <<"t","e","s","t","s","/","t",".","h">>

Universe == { F_a, F_xx, F_xxh, F_t }

\* What a file may hold before the tool runs.
Contents ==
    { << >>,                          \* empty file
      << "x" >>,                      \* code, no header
      << "x", CR, LF >>,              \* code with a CRLF line ending, no header
      BOILERPLATE,                    \* the header and nothing else
      BOILERPLATE \o << "x" >>,       \* the header directly followed by code
      << "H", CR, LF >> }             \* the header's text with a CRLF line ending

DirSet == { DIRS_TO_SCAN[i] : i \in 1..Len(DIRS_TO_SCAN) }

\* search_dir / ... : f lies under directory d of the project root
Under(f, d) == startswith(f, d \o << "/" >>)

\* Path.read_text(encoding="utf-8"): text mode with newline=None, so "\r\n"
\* and a lone "\r" both arrive as "\n"                               (line 61)
RECURSIVE read_text(_)
read_text(b) ==
    IF b = << >> THEN << >>
    ELSE IF Head(b) = CR
         THEN IF Len(b) >= 2 /\ b[2] = LF
              THEN << LF >> \o read_text(SubSeq(b, 3, Len(b)))
              ELSE << LF >> \o read_text(Tail(b))
         ELSE << Head(b) >> \o read_text(Tail(b))

\* os.linesep of the platform the tool runs on (POSIX)
linesep == << LF >>

\* Path.write_text(text, encoding="utf-8"): text mode with newline=None, every
\* "\n" is written as os.linesep                                     (line 80)
RECURSIVE write_text(_)
write_text(t) ==
    IF t = << >> THEN << >>
    ELSE IF Head(t) = LF
         THEN linesep \o write_text(Tail(t))
         ELSE << Head(t) >> \o write_text(Tail(t))

\* What a write_text that raised IOError may leave in the file: the old
\* characters (open failed), or, the file having been truncated by open, any
\* proper prefix of the new ones.
FailedWrite(old, new) ==
    { old } \cup { SubSeq(new, 1, k) : k \in 0..(Len(new) - 1) }

\* a header test that also demands the two blank lines after the boilerplate
HasHeader_with_spacing(content) == startswith(content, BOILERPLATE_WITH_SPACING)

\* content.startswith(BOILERPLATE)                                   (line 66)
HasHeader(content) == startswith(content, BOILERPLATE)

\* the header put after the content instead of before it
new_content_appended(content) == content \o BOILERPLATE_WITH_SPACING

\* new_content = BOILERPLATE_WITH_SPACING + content                  (line 79)
new_content(content) == BOILERPLATE_WITH_SPACING \o content

\* an exclusion test by equality instead of by prefix
is_excluded_exact(relative_path_str) == relative_path_str \in THIRD_PARTY_PATHS

\* is_excluded                                                    (lines 86-93)
is_excluded(relative_path_str) ==
    \E exclusion_prefix \in THIRD_PARTY_PATHS :
        startswith(relative_path_str, exclusion_prefix)

\* a glob of the directory's own entries only, not a recursive one
rglob_flat(search_dir, ext) ==
    { f \in DOMAIN disk :
        /\ Under(f, search_dir)
        /\ endswith(f, ext)
        /\ \A k \in (Len(search_dir) + 2)..Len(f) : f[k] # "/" }

\* search_dir.rglob(f"*{ext}")                                      (line 121)
rglob(search_dir, ext) ==
    { f \in DOMAIN disk : Under(f, search_dir) /\ endswith(f, ext) }

\* process_file's return value when read_text raised                (line 64)
ReadErrorResult == FALSE

\* a failed write not reported as missing
WriteErrorResult_false == FALSE

\* process_file's return value when write_text raised               (line 84)
WriteErrorResult == TRUE

\* if process_file(...): missing_files += 1                    (lines 132-133)
CountMissing(n, result) == IF result THEN n + 1 ELSE n

\* a `break` where the code has `continue`
AfterMissingDir_break(i) == Len(DIRS_TO_SCAN) + 1

\* the `continue` of a directory that does not exist              (line 113)
AfterMissingDir(i) == i + 1

\* an exit status that ignores the mode
exit_code_any_mode(mode, missing) == IF missing > 0 THEN 1 ELSE 0

\* the argument of sys.exit                                   (lines 142-154)
exit_code(mode, missing) == IF mode /\ missing > 0 THEN 1 ELSE 0

----------------------------------------------------------------------------
(* Initial states: any tree, any mode, counters as main() sets them *)

NoPrev == [ ran |-> FALSE, failed |-> FALSE, wrote |-> FALSE ]

Trees ==
    { t \in SUBSET Universe : Cardinality(t) <= MaxFiles }

Init ==
    /\ check_mode \in BOOLEAN
    /\ dirs \in SUBSET DirSet
    /\ \E t \in Trees :
          /\ \A f \in t : \E d \in dirs : Under(f, d)
          /\ disk \in [ t -> Contents ]
          /\ readable \in [ t -> BOOLEAN ]
    /\ pc = "dir"
    /\ di = 1
    /\ exts_left = {}
    /\ todo = {}
    /\ files_in_dir_processed = 0
    /\ missing_files = 0
    /\ total_processed = 0
    /\ total_skipped = 0
    /\ exit_status = -1
    /\ pre = disk
    /\ visited = {}
    /\ readSet = {}
    /\ written = {}
    /\ writeFailed = {}
    /\ reported = {}
    /\ applying = {}
    /\ errlog = {}
    /\ warned = {}
    /\ run = 1
    /\ prev = NoPrev

----------------------------------------------------------------------------
(* main(), lines 95-154 *)

env    == << check_mode, dirs, readable, run, prev, pre >>
output == << readSet, written, writeFailed, reported, applying, errlog >>
counts == << missing_files, total_processed, total_skipped,
             files_in_dir_processed >>

\* lines 111-113: the directory does not exist
WarnMissingDir ==
    /\ pc = "dir"
    /\ di <= Len(DIRS_TO_SCAN)
    /\ DIRS_TO_SCAN[di] \notin dirs
    /\ warned' = warned \cup { DIRS_TO_SCAN[di] }
    /\ di' = AfterMissingDir(di)
    /\ UNCHANGED << env, disk, pc, exts_left, todo, counts, exit_status,
                    visited, output >>

\* lines 115-117: the directory exists
EnterDir ==
    /\ pc = "dir"
    /\ di <= Len(DIRS_TO_SCAN)
    /\ DIRS_TO_SCAN[di] \in dirs
    /\ pc' = "scan"
    /\ exts_left' = TARGET_EXTS
    /\ todo' = {}
    /\ files_in_dir_processed' = 0
    /\ UNCHANGED << env, disk, di, missing_files, total_processed,
                    total_skipped, exit_status, visited, output, warned >>

\* lines 120-121: the next extension, in the set's iteration order
NextExt ==
    /\ pc = "scan"
    /\ todo = {}
    /\ \E ext \in exts_left :
          /\ exts_left' = exts_left \ { ext }
          /\ todo' = rglob(DIRS_TO_SCAN[di], ext)
    /\ UNCHANGED << env, disk, pc, di, counts, exit_status, visited,
                    output, warned >>

\* lines 124-128: an excluded file
Excluded(f) ==
    /\ pc = "scan"
    /\ f \in todo
    /\ is_excluded(f)
    /\ total_skipped' = total_skipped + 1
    /\ todo' = todo \ { f }
    /\ visited' = visited \cup { f }
    /\ UNCHANGED << env, disk, pc, di, exts_left, missing_files,
                    total_processed, files_in_dir_processed, exit_status,
                    output, warned >>

\* lines 130-133 with process_file lines 60-64: read_text raises
ReadError(f) ==
    /\ pc = "scan"
    /\ f \in todo
    /\ ~is_excluded(f)
    /\ ~readable[f]
    /\ total_processed' = total_processed + 1
    /\ files_in_dir_processed' = files_in_dir_processed + 1
    /\ readSet' = readSet \cup { f }
    /\ errlog' = errlog \cup { f }
    /\ missing_files' = CountMissing(missing_files, ReadErrorResult)
    /\ todo' = todo \ { f }
    /\ visited' = visited \cup { f }
    /\ UNCHANGED << env, disk, pc, di, exts_left, total_skipped, exit_status,
                    written, writeFailed, reported, applying, warned >>

\* lines 130-133 with process_file lines 60-68: the header is there
HeaderPresent(f) ==
    /\ pc = "scan"
    /\ f \in todo
    /\ ~is_excluded(f)
    /\ readable[f]
    /\ HasHeader(read_text(disk[f]))
    /\ total_processed' = total_processed + 1
    /\ files_in_dir_processed' = files_in_dir_processed + 1
    /\ readSet' = readSet \cup { f }
    /\ missing_files' = CountMissing(missing_files, FALSE)
    /\ todo' = todo \ { f }
    /\ visited' = visited \cup { f }
    /\ UNCHANGED << env, disk, pc, di, exts_left, total_skipped, exit_status,
                    written, writeFailed, reported, applying, errlog, warned >>

\* lines 130-133 with process_file lines 60-74: check mode, header missing
ReportMissing(f) ==
    /\ pc = "scan"
    /\ f \in todo
    /\ ~is_excluded(f)
    /\ readable[f]
    /\ ~HasHeader(read_text(disk[f]))
    /\ check_mode
    /\ total_processed' = total_processed + 1
    /\ files_in_dir_processed' = files_in_dir_processed + 1
    /\ readSet' = readSet \cup { f }
    /\ reported' = reported \cup { f }
    /\ missing_files' = CountMissing(missing_files, TRUE)
    /\ todo' = todo \ { f }
    /\ visited' = visited \cup { f }
    /\ UNCHANGED << env, disk, pc, di, exts_left, total_skipped, exit_status,
                    written, writeFailed, applying, errlog, warned >>

\* lines 130-133 with process_file lines 60-81: apply mode, the write succeeds
ApplyHeader(f) ==
    /\ pc = "scan"
    /\ f \in todo
    /\ ~is_excluded(f)
    /\ readable[f]
    /\ ~HasHeader(read_text(disk[f]))
    /\ ~check_mode
    /\ total_processed' = total_processed + 1
    /\ files_in_dir_processed' = files_in_dir_processed + 1
    /\ readSet' = readSet \cup { f }
    /\ applying' = applying \cup { f }
    /\ disk' = [ disk EXCEPT ![f] = write_text(new_content(read_text(disk[f]))) ]
    /\ written' = written \cup { f }
    /\ missing_files' = CountMissing(missing_files, TRUE)
    /\ todo' = todo \ { f }
    /\ visited' = visited \cup { f }
    /\ UNCHANGED << env, pc, di, exts_left, total_skipped, exit_status,
                    writeFailed, reported, errlog, warned >>

\* lines 130-133 with process_file lines 60-84: apply mode, write_text raises
WriteError(f) ==
    /\ pc = "scan"
    /\ f \in todo
    /\ ~is_excluded(f)
    /\ readable[f]
    /\ ~HasHeader(read_text(disk[f]))
    /\ ~check_mode
    /\ total_processed' = total_processed + 1
    /\ files_in_dir_processed' = files_in_dir_processed + 1
    /\ readSet' = readSet \cup { f }
    /\ applying' = applying \cup { f }
    /\ \E left \in FailedWrite(disk[f],
                               write_text(new_content(read_text(disk[f])))) :
          disk' = [ disk EXCEPT ![f] = left ]
    /\ writeFailed' = writeFailed \cup { f }
    /\ errlog' = errlog \cup { f }
    /\ missing_files' = CountMissing(missing_files, WriteErrorResult)
    /\ todo' = todo \ { f }
    /\ visited' = visited \cup { f }
    /\ UNCHANGED << env, pc, di, exts_left, total_skipped, exit_status,
                    written, reported, warned >>

\* lines 135-136: both extensions done, on to the next directory
EndDir ==
    /\ pc = "scan"
    /\ todo = {}
    /\ exts_left = {}
    /\ pc' = "dir"
    /\ di' = di + 1
    /\ UNCHANGED << env, disk, exts_left, todo, counts, exit_status, visited,
                    output, warned >>

\* lines 138-154: the summary and sys.exit
Finish ==
    /\ pc = "dir"
    /\ di > Len(DIRS_TO_SCAN)
    /\ pc' = "done"
    /\ exit_status' = exit_code(check_mode, missing_files)
    /\ UNCHANGED << env, disk, di, exts_left, todo, counts, visited, output,
                    warned >>

Next ==
    \/ WarnMissingDir
    \/ EnterDir
    \/ NextExt
    \/ \E f \in Universe : Excluded(f)
    \/ \E f \in Universe : ReadError(f)
    \/ \E f \in Universe : HeaderPresent(f)
    \/ \E f \in Universe : ReportMissing(f)
    \/ \E f \in Universe : ApplyHeader(f)
    \/ \E f \in Universe : WriteError(f)
    \/ EndDir
    \/ Finish

Spec == Init /\ [][Next]_vars

\* The same command is invoked again on the tree the previous invocation left.
Rerun ==
    /\ pc = "done"
    /\ run < MaxRuns
    /\ run' = run + 1
    /\ prev' = [ ran |-> TRUE, failed |-> writeFailed # {},
                 wrote |-> written # {} ]
    /\ pc' = "dir"
    /\ di' = 1
    /\ exts_left' = {}
    /\ todo' = {}
    /\ files_in_dir_processed' = 0
    /\ missing_files' = 0
    /\ total_processed' = 0
    /\ total_skipped' = 0
    /\ exit_status' = -1
    /\ pre' = disk
    /\ visited' = {}
    /\ readSet' = {}
    /\ written' = {}
    /\ writeFailed' = {}
    /\ reported' = {}
    /\ applying' = {}
    /\ errlog' = {}
    /\ warned' = {}
    /\ UNCHANGED << check_mode, dirs, disk, readable >>

NextRuns == Next \/ Rerun

SpecRuns == Init /\ [][NextRuns]_vars


----------------------------------------------------------------------------
(* Vocabulary of the properties *)

Done == pc = "done"

\* f's relative path starts with an entry of the exclusion set
PathExcluded(f) == \E e \in THIRD_PARTY_PATHS : startswith(f, e)

\* the files with a target extension under the scan directories that exist
Enumerated ==
    { f \in DOMAIN disk :
        /\ \E d \in dirs : Under(f, d)
        /\ \E ext \in TARGET_EXTS : endswith(f, ext) }

\* the file held the exact boilerplate text at its start when the run began
HadExactHeader(f) == startswith(pre[f], BOILERPLATE)

\* the files counted as missing: reported in check mode, rewritten (or tried)
\* in apply mode
CountedMissing == reported \cup applying

----------------------------------------------------------------------------
(* C1 *)

\* C1: in apply mode, after the run, every enumerated file that matches no
\* exclusion prefix, is readable, did not start with the exact boilerplate and
\* whose write did not fail holds boilerplate + two newlines + its original
\* content, unchanged.
C1_ApplyPrependsHeader ==
    (Done /\ ~check_mode) =>
        \A f \in Enumerated :
            ( /\ ~PathExcluded(f)
              /\ readable[f]
              /\ ~HadExactHeader(f)
              /\ f \notin writeFailed )
            => disk[f] = BOILERPLATE_WITH_SPACING \o pre[f]

----------------------------------------------------------------------------
(* C2 *)

\* C2: in check mode no file's content changes, and each readable,
\* non-excluded file visited that lacks the boilerplate prefix is reported and
\* adds exactly one to the missing count.
C2_CheckReadOnlyAndReports ==
    check_mode =>
        /\ disk = pre
        /\ written = {} /\ writeFailed = {}
        /\ reported = { f \in visited : /\ ~PathExcluded(f)
                                        /\ readable[f]
                                        /\ ~HadExactHeader(f) }
        /\ missing_files = Cardinality(reported)

----------------------------------------------------------------------------
(* C3 *)

\* C3: a check-mode run exits 1 exactly when missing_files > 0 and 0
\* otherwise; an apply-mode run exits 0 whatever it counted and whether or not
\* a write failed.
C3_ExitStatus ==
    /\ Done =>
        /\ check_mode => ( /\ exit_status = 1 <=> missing_files > 0
                           /\ exit_status = 0 <=> missing_files = 0 )
        /\ ~check_mode => exit_status = 0
    /\ ~Done => exit_status = -1

C3_Witness ==
    /\ Done
    /\ check_mode
    /\ missing_files > 0
    /\ exit_status = 1

----------------------------------------------------------------------------
(* C4 *)

\* C4: a file whose relative path starts with an exclusion prefix is never
\* read and never modified, in either mode and whatever it holds; it adds one
\* to total_skipped and nothing to total_processed or missing_files.
C4_ExcludedUntouched ==
    /\ \A f \in DOMAIN disk :
          PathExcluded(f) =>
              /\ f \notin readSet
              /\ f \notin written \cup writeFailed
              /\ f \notin CountedMissing
              /\ disk[f] = pre[f]
    /\ total_skipped = Cardinality({ f \in visited : PathExcluded(f) })
    /\ total_processed = Cardinality({ f \in visited : ~PathExcluded(f) })
    /\ missing_files = Cardinality(CountedMissing)

C4_Witness ==
    /\ Done
    /\ total_skipped = 2
    /\ F_xx \in visited /\ ~HadExactHeader(F_xx)
    /\ F_xxh \in visited

----------------------------------------------------------------------------
(* C5 *)

\* C5: a file whose content starts with the exact boilerplate text (the two
\* blank lines after it not required) is left unchanged by a run in either
\* mode and is not counted as missing.
C5_HeaderPresentUntouched ==
    /\ \A f \in DOMAIN disk :
          HadExactHeader(f) =>
              /\ disk[f] = pre[f]
              /\ f \notin CountedMissing
              /\ f \notin written \cup writeFailed
    /\ missing_files = Cardinality(CountedMissing)

C5_Witness ==
    /\ Done
    /\ \E f \in readSet :
          /\ HadExactHeader(f)
          /\ ~startswith(pre[f], BOILERPLATE_WITH_SPACING)
    /\ \E g \in CountedMissing : TRUE

----------------------------------------------------------------------------
(* C6 *)

----------------------------------------------------------------------------
(* C7 *)

\* C7: a non-excluded file whose read fails is logged, left unmodified, and
\* counted in no tally: not in missing_files, not in total_processed, not in
\* total_skipped.
C7_UnreadableCountedNowhere ==
    /\ \A f \in visited :
          (~PathExcluded(f) /\ ~readable[f]) =>
              /\ f \in errlog
              /\ disk[f] = pre[f]
              /\ f \notin CountedMissing
    /\ missing_files = Cardinality(CountedMissing)
    /\ total_skipped = Cardinality({ f \in visited : PathExcluded(f) })
    /\ total_processed =
          Cardinality({ f \in visited : ~PathExcluded(f) /\ readable[f] })

----------------------------------------------------------------------------
(* C8 *)

\* C8: in apply mode a failed write-back is logged and still adds exactly one
\* to missing_files, as a successful fix does; the scan goes on over the
\* remaining files and the run exits 0.
C8_WriteFailureCounted ==
    ~check_mode =>
        /\ writeFailed \subseteq errlog
        /\ applying = written \cup writeFailed
        /\ written \cap writeFailed = {}
        /\ missing_files = Cardinality(written) + Cardinality(writeFailed)
        /\ Done => ( visited = Enumerated /\ exit_status = 0 )

C8_Witness ==
    /\ Done
    /\ ~check_mode
    /\ writeFailed # {}
    /\ written # {}
    /\ missing_files = 2
    /\ exit_status = 0

----------------------------------------------------------------------------
(* C9 *)

\* the directories the loop has reached so far
DirsReached ==
    { DIRS_TO_SCAN[j] : j \in { k \in 1..Len(DIRS_TO_SCAN) : k <= di } }

\* the directories the loop is through with
DirsLeft ==
    { DIRS_TO_SCAN[j] : j \in { k \in 1..Len(DIRS_TO_SCAN) : k < di } }

\* C9: a configured directory that does not exist gets a warning and changes
\* no counter; the scan goes on with the later directories in list order, so
\* at the end every file of the existing directories has been visited and the
\* exit status is decided by them alone.
C9_MissingDirNonFatal ==
    /\ di \in 1..(Len(DIRS_TO_SCAN) + 1)
    /\ warned = DirsLeft \ dirs
    /\ \A f \in Enumerated :
          (\E d \in DirsLeft : Under(f, d)) => f \in visited
    /\ \A f \in visited : \E d \in DirsReached : Under(f, d)
    /\ total_processed + total_skipped = Cardinality(visited)
    /\ Done =>
          /\ visited = Enumerated
          /\ warned = DirSet \ dirs
          /\ check_mode => (exit_status = 1 <=> reported # {})

C9_Witness ==
    /\ Done
    /\ check_mode
    /\ DIRS_TO_SCAN[2] \notin dirs
    /\ DIRS_TO_SCAN[2] \in warned
    /\ F_a \in reported
    /\ F_t \in visited /\ F_t \notin reported
    /\ exit_status = 1

----------------------------------------------------------------------------
(* C10 *)

C10_Inv ==
    /\ missing_files <= total_processed
    /\ total_processed + total_skipped = Cardinality(visited)
    /\ total_skipped = Cardinality({ f \in visited : PathExcluded(f) })
    /\ total_processed = Cardinality({ f \in visited : ~PathExcluded(f) })
    /\ Done => total_processed + total_skipped = Cardinality(Enumerated)

C10_Step ==
    /\ missing_files' >= missing_files
    /\ total_processed' >= total_processed
    /\ total_skipped' >= total_skipped
    /\ \A f \in visited' \ visited :
          \/ /\ total_processed' = total_processed + 1
             /\ total_skipped' = total_skipped
          \/ /\ total_processed' = total_processed
             /\ total_skipped' = total_skipped + 1

\* C10: throughout a run missing_files <= total_processed, every enumerated
\* file adds exactly one to exactly one of total_processed and total_skipped
\* (so that at the end their sum is the number of files enumerated), and no
\* counter ever decreases.
C10_Counters == []C10_Inv /\ [][C10_Step]_vars

C10_Witness ==
    /\ Done
    /\ total_processed = 1
    /\ total_skipped = 1
    /\ missing_files = 1

====
